---- MODULE Spec2Model ----
(***************************************************************************)
(* The price-update job of poidh-cron: jobs/updatePrices.ts (the "dynamic" *)
(* variant: schema-qualified Bounties table, threshold 10) and the second  *)
(* job file (the "sidecar" variant: public."BountiesExtra", threshold 5).  *)
(*                                                                         *)
(* One run of main() is one process: environment check, deployment-id      *)
(* lookup (dynamic), connect, BEGIN, updateLatestPrice (select latest,     *)
(* two concurrent fetchPrice calls, decision, INSERT), ensure table        *)
(* (dynamic), updateBountyAmounts, COMMIT, with the catch and finally      *)
(* blocks.  Every awaited call may succeed or fail.                        *)
(*                                                                         *)
(* Spec is one run of the job after another; FairSpec adds that a running  *)
(* process goes on.  PolicySpec is the decision step alone on a wider      *)
(* range of prices, RevalueSpec is updateBountyAmounts called repeatedly,  *)
(* OverlapSpec is two runs of the job at the same time against one         *)
(* database (read committed, row locks), and TriggerSpec is the trigger    *)
(* client at the end of jobs/updatePrices.ts.                              *)
(*                                                                         *)
(* Numbers.  A JavaScript number is modelled as an exact decimal           *)
(* m * 10^e (normalised: m has no trailing zero) or NaN.  The model's      *)
(* arithmetic is exact.  The price texts and bounty amounts are those on   *)
(* which IEEE-754 double arithmetic gives the same comparison outcome in   *)
(* updateLatestPrice and the same toFixed(5) text in updateBountyAmounts   *)
(* as exact arithmetic does.  A text such as "0.0105" against a previous   *)
(* "0.01" is left out: the doubles nearest to them differ by slightly more *)
(* than 5 percent (the program computes 5.000000000000004).  Infinity is   *)
(* not modelled.                                                           *)
(***************************************************************************)
EXTENDS Integers, Sequences, FiniteSets, TLC

VARIABLES
    variant,            \* which job file is deployed: "dynamic" | "sidecar"
    runs,               \* number of runs started so far
    pc,                 \* position of main()
    priceTable,         \* committed rows of public."Price", oldest first
    amountSort,         \* committed amount_sort of every bounty row
    txPrice,            \* the open transaction's view of public."Price"
    txAmount,           \* the open transaction's view of amount_sort
    dbTx,               \* the server has a transaction open on the connection
    connOpen,           \* client.connect() succeeded and client.end() not yet called
    endCalls,           \* calls of client.end() in this run
    transactionStarted, \* main's local flag
    latestPrice,        \* updateLatestPrice: <<>> or <<row>> of the latest snapshot
    fetch,              \* per currency: the state of its fetchPrice call
    current,            \* [eth, degen]: the two fetched numbers
    decided,            \* what updateLatestPrice decided: "none" | "update" | "skip" | "throw"
    prices,             \* the prices updateLatestPrice returned
    rows,               \* updateBountyAmounts: the selected row indices
    idx,                \* updateBountyAmounts: position of the for loop
    stmts,              \* statements this run has issued on the connection
    error,              \* the exception main is about to raise ("none" if none)
    caught,             \* the exception that entered main's catch block
    pre,                \* the committed database state when the run started
    schemaName,         \* main's schemaName: <<>> until resolved, then <<id>>
    exitCode,           \* <<>> while the process runs, then <<code>>
    job,                \* two overlapping runs: the state of each
    passes,             \* amount_sort after each finished pass of updateBountyAmounts
    trigger             \* the trigger client's process

vars == <<variant, runs, pc, priceTable, amountSort, txPrice, txAmount, dbTx,
          connOpen, endCalls, transactionStarted, latestPrice, fetch, current,
          decided, prices, rows, idx, stmts, error, caught, pre, schemaName,
          exitCode, job, passes, trigger>>

-----------------------------------------------------------------------------
(* Bounds *)

\* Runs of the job in one behaviour.
MaxRuns == 2

-----------------------------------------------------------------------------
(* Numbers *)

NaN == [nan |-> TRUE, m |-> 0, e |-> 0]

RECURSIVE Norm(_, _)
Norm(m, e) ==
    IF m = 0 THEN [nan |-> FALSE, m |-> 0, e |-> 0]
    ELSE IF m % 10 = 0 THEN Norm(m \div 10, e + 1)
    ELSE [nan |-> FALSE, m |-> m, e |-> e]

Dec(m, e) == Norm(m, e)

RECURSIVE Pow10(_)
Pow10(k) == IF k = 0 THEN 1 ELSE 10 * Pow10(k - 1)

Abs(x) == IF x < 0 THEN -x ELSE x

Min(a, b) == IF a < b THEN a ELSE b

\* a * b on numbers
Times(a, b) ==
    IF a.nan \/ b.nan THEN NaN ELSE Dec(a.m * b.m, a.e + b.e)

\* Number(text) for the texts the model uses
Number(s) ==
    CASE s = "2000"   -> Dec(2, 3)
      [] s = "2100"   -> Dec(21, 2)
      [] s = "2150"   -> Dec(215, 1)
      [] s = "2200"   -> Dec(22, 2)
      [] s = "2300"   -> Dec(23, 2)
      [] s = "0"      -> Dec(0, 0)
      [] s = ""       -> Dec(0, 0)
      [] s = "0.01"   -> Dec(1, -2)
      [] s = "0.0101" -> Dec(101, -4)
      [] s = "0.011"  -> Dec(11, -3)
      [] s = "0.02"   -> Dec(2, -2)
      [] s = "-0.01"  -> Dec(-1, -2)
      [] OTHER        -> NaN

\* the texts Number.prototype.toString produces
CanonTexts ==
    {"2000", "2100", "2150", "2200", "2300", "0", "0.01", "0.0101",
     "0.011", "0.02", "-0.01", "NaN"}

\* x.toString()
NumToString(x) == CHOOSE s \in CanonTexts : Number(s) = x

-----------------------------------------------------------------------------
(* Program constants *)

\* let retries = 5
Retries == 5

\* bounty.chain_id === 666666666
DegenChainId == 666666666

\* formatEther: 18 decimals
EtherDecimals == 18

\* toFixed(5)
SortDigits == 5

Variants == {"dynamic", "sidecar"}

Currencies == {"eth", "degen"}

\* the literal the percent change is compared with in updateLatestPrice
Threshold(v) == IF v = "dynamic" THEN 10 ELSE 5

-----------------------------------------------------------------------------
(* percentChange and the update decision *)

\* previous === 0
IsZero(x) == ~x.nan /\ x.m = 0

\* Math.abs(((current - previous) / previous) * 100) as the fraction n / d;
\* called only with previous # 0
percentChange(cur, previous) ==
    IF cur.nan \/ previous.nan THEN [nan |-> TRUE, n |-> 0, d |-> 1]
    ELSE LET e  == Min(cur.e, previous.e)
             cm == cur.m * Pow10(cur.e - e)
             pm == previous.m * Pow10(previous.e - e)
         IN  [nan |-> FALSE, n |-> Abs(cm - pm) * 100, d |-> Abs(pm)]

\* faulty variant of Exceeds: the comparison written >=
Exceeds_AtLeast(change, t) == ~change.nan /\ change.n >= t * change.d

\* percentChange(...) > t ; a comparison with NaN is false
Exceeds(change, t) == ~change.nan /\ change.n > t * change.d

\* shouldUpdatePrice of updateLatestPrice, evaluated left to right with
\* short-circuit: "update", "skip", or "throw" when percentChange throws
Decision(latest, cur, t) ==
    IF latest = <<>> THEN "update"
    ELSE LET pe == Number(latest[1].eth_usd)
             pd == Number(latest[1].degen_usd)
         IN  IF IsZero(pe) THEN "throw"
             ELSE IF Exceeds(percentChange(cur.eth, pe), t) THEN "update"
             ELSE IF IsZero(pd) THEN "throw"
             ELSE IF Exceeds(percentChange(cur.degen, pd), t) THEN "update"
             ELSE "skip"

-----------------------------------------------------------------------------
(* The bounty tables and the valuation of a row *)

\* The rows of the Bounties table: identity (id, chain_id) and the base-unit
\* amount, written m * 10^e.  Bounty ids are per chain, so two chains can
\* hold the same id (the sidecar job joins on id AND chain_id).
Bounties ==
    << [id |-> 1, chain_id |-> 1,         amount |-> [m |-> 1,  e |-> 18]],
       [id |-> 1, chain_id |-> 666666666, amount |-> [m |-> 5,  e |-> 17]],
       [id |-> 2, chain_id |-> 8453,      amount |-> [m |-> 37, e |-> 9]] >>

RowIds == DOMAIN Bounties

\* Number(formatEther(BigInt(bounty.amount)))
formatEther(amount) == Dec(amount.m, amount.e - EtherDecimals)

\* faulty variant of SelectPrice: the two branches exchanged
SelectPrice_Swapped(chain_id, p) ==
    IF chain_id = DegenChainId THEN p.ethUsd ELSE p.degenUsd

\* bounty.chain_id === 666666666 ? prices.degenUsd : prices.ethUsd
SelectPrice(chain_id, p) ==
    IF chain_id = DegenChainId THEN p.degenUsd ELSE p.ethUsd

\* x.toFixed(5) as the count n of units of 10^-5: the n for which
\* n / 10^5 - x is closest to zero, the larger n of two; "NaN" for NaN
toFixed(x) ==
    IF x.nan THEN [nan |-> TRUE, n |-> 0]
    ELSE LET s == IF x.m < 0 THEN -1 ELSE 1
             a == Abs(x.m)
             k == x.e + SortDigits
         IN  IF k >= 0 THEN [nan |-> FALSE, n |-> s * a * Pow10(k)]
             ELSE LET q == a \div Pow10(-k)
                      r == a % Pow10(-k)
                  IN  [nan |-> FALSE,
                       n |-> s * (IF 2 * r >= Pow10(-k) THEN q + 1 ELSE q)]

\* the $1 parameter of the UPDATE issued for row r
AmountSortOf(r, p) ==
    toFixed(Times(formatEther(Bounties[r].amount),
                  SelectPrice(Bounties[r].chain_id, p)))

\* the WHERE clause of the UPDATE: "id = $2" on the schema-qualified Bounties
\* table, "bounty_id = $2 AND chain_id = $3" on BountiesExtra
Matches(v, k, r) ==
    IF v = "dynamic" THEN Bounties[k].id = Bounties[r].id
    ELSE Bounties[k].id = Bounties[r].id
         /\ Bounties[k].chain_id = Bounties[r].chain_id

\* the table after UPDATE ... SET amount_sort = val WHERE <row r's key>
UpdateWhere(tbl, v, r, val) ==
    [k \in RowIds |-> IF Matches(v, k, r) THEN val ELSE tbl[k]]

\* the rows the SELECT of updateBountyAmounts returns.  The SELECT has no
\* ORDER BY, so the server may return them in any order (RowOrders); a run on
\* its own takes them in table order, which no statement it issues depends on.
SelectRows == [k \in 1..Len(Bounties) |-> k]

\* the orders in which SELECT ... FROM Bounties can return the rows
RowOrders ==
    {o \in [1..Len(Bounties) -> RowIds] :
        \A i, j \in 1..Len(Bounties) : i # j => o[i] # o[j]}

-----------------------------------------------------------------------------
(* The price endpoint and fetchPrice *)

\* USD texts the quote endpoint can carry for a currency
UsdTexts(c) ==
    IF c = "eth" THEN {"2000", "2300", "0", ""}
    ELSE {"0.01", "0.02", "abc", "-0.01", ""}

\* the USD text an error page of the endpoint can carry
ErrorPageTexts(c) == IF c = "eth" THEN {"2300"} ELSE {"0.02"}

\* One HTTP attempt: fetch() rejects ("network"), response.json() rejects
\* ("badjson"), or a JSON body arrives with HTTP status ok / not ok and
\* data.rates.USD absent (<<>>) or a text (<<text>>)
Responses(c) ==
    {[kind |-> "network", ok |-> FALSE, usd |-> <<>>],
     [kind |-> "badjson", ok |-> TRUE, usd |-> <<>>],
     [kind |-> "json", ok |-> TRUE, usd |-> <<>>],
     [kind |-> "json", ok |-> FALSE, usd |-> <<>>]}
    \cup {[kind |-> "json", ok |-> TRUE, usd |-> <<t>>] : t \in UsdTexts(c)}
    \cup {[kind |-> "json", ok |-> FALSE, usd |-> <<t>>] : t \in ErrorPageTexts(c)}

\* the try block of fetchPrice reaches "return Number(price)": the body was
\* parsed and price is truthy (neither undefined nor the empty string)
Returns(r) == r.kind = "json" /\ r.usd # <<>> /\ r.usd[1] # ""

FetchIdle ==
    [st |-> "idle", retries |-> Retries, attempts |-> 0, price |-> NaN,
     httpOk |-> TRUE]

\* let retries = 5
FetchStart == [FetchIdle EXCEPT !.st = "running"]

\* faulty variant of FetchFailed: the counter tested before it is decremented
\* (retries-- === 0)
FetchFailed_PostDecrement(f) ==
    [f EXCEPT !.retries = f.retries - 1,
              !.attempts = f.attempts + 1,
              !.st = IF f.retries = 0 THEN "failed" ELSE "running"]

\* the catch block of fetchPrice: if (--retries === 0) throw
FetchFailed(f) ==
    [f EXCEPT !.retries = f.retries - 1,
              !.attempts = f.attempts + 1,
              !.st = IF f.retries - 1 = 0 THEN "failed" ELSE "running"]

\* return Number(price)
FetchReturned(f, r) ==
    [f EXCEPT !.st = "ok", !.attempts = f.attempts + 1,
              !.price = Number(r.usd[1]), !.httpOk = r.ok]

-----------------------------------------------------------------------------
(* Statements on the connection *)

NoVal == [nan |-> FALSE, n |-> 0]

Stmt(op, ok) == [op |-> op, row |-> 0, val |-> NoVal, ok |-> ok]

UpdateStmt(r, val, ok) == [op |-> "UPDATE", row |-> r, val |-> val, ok |-> ok]

\* the rows a new database can hold in public."Price"
InitialPriceTables ==
    {<<>>, <<[eth_usd |-> "2000", degen_usd |-> "0.01"]>>}

-----------------------------------------------------------------------------
(* The processes outside a single run *)

\* two instances of the job started by overlapping cron triggers
Procs == {1, 2}

\* an instance that has not started: its position in main, main's
\* transactionStarted, the snapshot it read and the length of the price table
\* it read it from, its fetched and decided prices, the snapshot and the
\* amount_sort values written inside its open transaction, the position of
\* its for loop, whether its COMMIT succeeded, and its error
JobIdle ==
    [pc |-> "idle", started |-> FALSE, seen |-> <<>>, latest |-> <<>>,
     current |-> [eth |-> NaN, degen |-> NaN], decided |-> "none",
     prices |-> [ethUsd |-> NaN, degenUsd |-> NaN], ins |-> <<>>,
     amt |-> [k \in RowIds |-> <<>>], idx |-> 1, committed |-> FALSE,
     error |-> "none"]

\* the trigger client before it starts: its position, the environment
\* (SERVER_API_KEY, SERVER_SECRET, SERVER_URL; "" when unset), Date.now(),
\* main's timestamp, the requests sent, the HTTP status received, the error
\* main rejected with, and the exit code
TriggerIdle ==
    [pc |-> "idle", key |-> "", secret |-> "", url |-> "", now |-> 0,
     timestamp |-> 0, sent |-> <<>>, status |-> <<>>, error |-> "none",
     exitCode |-> <<>>]

-----------------------------------------------------------------------------
(* Initial state *)

Init ==
    /\ variant \in Variants
    /\ runs = 0
    /\ pc = "idle"
    /\ priceTable \in InitialPriceTables
    /\ amountSort = [k \in RowIds |-> NoVal]
    /\ txPrice = priceTable
    /\ txAmount = amountSort
    /\ dbTx = FALSE
    /\ connOpen = FALSE
    /\ endCalls = 0
    /\ transactionStarted = FALSE
    /\ latestPrice = <<>>
    /\ fetch = [c \in Currencies |-> FetchIdle]
    /\ current = [eth |-> NaN, degen |-> NaN]
    /\ decided = "none"
    /\ prices = [ethUsd |-> NaN, degenUsd |-> NaN]
    /\ rows = <<>>
    /\ idx = 1
    /\ stmts = <<>>
    /\ error = "none"
    /\ caught = "none"
    /\ pre = [price |-> priceTable, amount |-> amountSort]
    /\ schemaName = <<>>
    /\ exitCode = <<>>
    /\ job = [p \in Procs |-> JobIdle]
    /\ passes = <<>>
    /\ trigger = TriggerIdle

db == <<priceTable, amountSort>>

\* the state of the processes that take no part in a run of the job on its own
elsewhere == <<job, passes, trigger>>

tx == <<txPrice, txAmount, dbTx>>

locals == <<latestPrice, current, decided, prices, rows, idx>>

-----------------------------------------------------------------------------
(* The exit of the process *)

\* faulty variant of ExitCode: the rejection of main() is logged and the process
\* still exits with 0
ExitCode_Swallowed(err) == 0

\* main().then(() => process.exit(0)).catch(() => process.exit(1)): the exit
\* code for the error main() rejected with ("none": it returned)
ExitCode(err) == IF err = "none" THEN 0 ELSE 1

-----------------------------------------------------------------------------
(* main: before the try block *)

\* A cron trigger starts the job as a new process.
StartRun ==
    /\ pc \in {"idle", "done"}
    /\ runs < MaxRuns
    /\ runs' = runs + 1
    /\ pc' = "env"
    /\ connOpen' = FALSE
    /\ endCalls' = 0
    /\ transactionStarted' = FALSE
    /\ latestPrice' = <<>>
    /\ fetch' = [c \in Currencies |-> FetchIdle]
    /\ current' = [eth |-> NaN, degen |-> NaN]
    /\ decided' = "none"
    /\ prices' = [ethUsd |-> NaN, degenUsd |-> NaN]
    /\ rows' = <<>>
    /\ idx' = 1
    /\ stmts' = <<>>
    /\ error' = "none"
    /\ caught' = "none"
    /\ pre' = [price |-> priceTable, amount |-> amountSort]
    /\ schemaName' = <<>>
    /\ exitCode' = <<>>
    /\ UNCHANGED <<variant, db, tx, elsewhere>>

\* if (!DATABASE_URL) throw
CheckEnv ==
    /\ pc = "env"
    /\ \E set \in BOOLEAN :
         IF set
         THEN /\ pc' = IF variant = "dynamic" THEN "resolve" ELSE "connect"
              /\ UNCHANGED <<error, exitCode>>
         ELSE /\ pc' = "done"
              /\ error' = "DATABASE_URL is required"
              /\ exitCode' = <<ExitCode(error')>>
    /\ UNCHANGED <<elsewhere, schemaName>>
    /\ UNCHANGED <<variant, runs, db, tx, connOpen, endCalls, transactionStarted,
                   locals, fetch, stmts, caught, pre>>

\* what the deployment-id endpoint can answer: fetch() rejects ("network"),
\* response.json() rejects ("badjson"), or a JSON body arrives with HTTP status
\* ok / not ok and deploymentId absent (<<>>), empty or a text
DeploymentResponses ==
    {[kind |-> "network", ok |-> FALSE, id |-> <<>>],
     [kind |-> "badjson", ok |-> TRUE, id |-> <<>>]}
    \cup {[kind |-> "json", ok |-> o, id |-> i] :
            o \in BOOLEAN, i \in {<<>>, <<"">>, <<"d1">>}}

\* fetchDeploymentId: the error it throws on response r, "none" when it returns
DeploymentError(r) ==
    CASE r.kind = "network" -> "Deployment ID fetch rejected"
      [] ~r.ok              -> "Deployment ID fetch failed"
      [] r.kind = "badjson" -> "Deployment ID body rejected"
      [] r.id = <<>> \/ r.id = <<"">> -> "Deployment ID missing from response"
      [] OTHER              -> "none"

\* const schemaName = await fetchDeploymentId()  (dynamic variant): the first
\* await of main, before the client is built and connected
FetchDeploymentId ==
    /\ pc = "resolve"
    /\ \E r \in DeploymentResponses :
         IF DeploymentError(r) = "none"
         THEN /\ pc' = "connect"
              /\ schemaName' = r.id
              /\ UNCHANGED <<error, exitCode>>
         ELSE /\ pc' = "done"
              /\ error' = DeploymentError(r)
              /\ exitCode' = <<ExitCode(error')>>
              /\ UNCHANGED schemaName
    /\ UNCHANGED elsewhere
    /\ UNCHANGED <<variant, runs, db, tx, connOpen, endCalls, transactionStarted,
                   locals, fetch, stmts, caught, pre>>

\* client.connect(); a connect error is thrown before the try block
Connect ==
    /\ pc = "connect"
    /\ \E ok \in BOOLEAN :
         IF ok
         THEN pc' = "begin" /\ connOpen' = TRUE /\ UNCHANGED <<error, exitCode>>
         ELSE /\ pc' = "done"
              /\ error' = "connect failed"
              /\ exitCode' = <<ExitCode(error')>>
              /\ UNCHANGED connOpen
    /\ UNCHANGED <<elsewhere, schemaName>>
    /\ UNCHANGED <<variant, runs, db, tx, endCalls, transactionStarted,
                   locals, fetch, stmts, caught, pre>>

-----------------------------------------------------------------------------
(* main: the try block *)

\* faulty variant of Begin: beginError is not thrown, the run goes on without
\* a transaction
Begin_ErrorIgnored ==
    /\ pc = "begin"
    /\ \E ok \in BOOLEAN :
         /\ stmts' = Append(stmts, Stmt("BEGIN", ok))
         /\ pc' = "selectLatest"
         /\ transactionStarted' = TRUE
         /\ dbTx' = ok
    /\ UNCHANGED <<elsewhere, schemaName, exitCode>>
    /\ UNCHANGED <<variant, runs, db, txPrice, txAmount, connOpen, endCalls,
                   locals, fetch, error, caught, pre>>

\* client.query("BEGIN"); transactionStarted = true
Begin ==
    /\ pc = "begin"
    /\ \E ok \in BOOLEAN :
         /\ stmts' = Append(stmts, Stmt("BEGIN", ok))
         /\ IF ok
            THEN /\ pc' = "selectLatest"
                 /\ transactionStarted' = TRUE
                 /\ dbTx' = TRUE
                 /\ UNCHANGED error
            ELSE /\ pc' = "catch"
                 /\ error' = "BEGIN failed"
                 /\ UNCHANGED <<transactionStarted, dbTx>>
    /\ UNCHANGED <<elsewhere, schemaName, exitCode>>
    /\ UNCHANGED <<variant, runs, db, txPrice, txAmount, connOpen, endCalls,
                   locals, fetch, caught, pre>>

\* updateLatestPrice: SELECT ... ORDER BY id DESC LIMIT 1, then both
\* fetchPrice calls are started (Promise.all)
SelectLatest ==
    /\ pc = "selectLatest"
    /\ \E ok \in BOOLEAN :
         /\ stmts' = Append(stmts, Stmt("SELECT_PRICE", ok))
         /\ IF ok
            THEN /\ pc' = "fetch"
                 /\ latestPrice' = IF txPrice = <<>> THEN <<>>
                                   ELSE <<txPrice[Len(txPrice)]>>
                 /\ fetch' = [c \in Currencies |-> FetchStart]
                 /\ UNCHANGED error
            ELSE /\ pc' = "catch"
                 /\ error' = "SELECT price failed"
                 /\ UNCHANGED <<latestPrice, fetch>>
    /\ UNCHANGED <<elsewhere, schemaName, exitCode>>
    /\ UNCHANGED <<variant, runs, db, tx, connOpen, endCalls, transactionStarted,
                   current, decided, prices, rows, idx, caught, pre>>

\* One iteration of the while loop of fetchPrice({currency: c}).  A call that
\* is still running when Promise.all has rejected goes on until the process
\* exits.
FetchAttempt(c) ==
    /\ pc # "done"
    /\ fetch[c].st = "running"
    /\ \E r \in Responses(c) :
         fetch' = [fetch EXCEPT ![c] = IF Returns(r)
                                       THEN FetchReturned(fetch[c], r)
                                       ELSE FetchFailed(fetch[c])]
    /\ UNCHANGED <<elsewhere, schemaName, exitCode>>
    /\ UNCHANGED <<variant, runs, pc, db, tx, connOpen, endCalls,
                   transactionStarted, locals, stmts, error, caught, pre>>

\* await Promise.all([...]): fulfilled when both calls returned, rejected as
\* soon as one call has thrown
PromiseAll ==
    /\ pc = "fetch"
    /\ \/ /\ \A c \in Currencies : fetch[c].st = "ok"
          /\ current' = [eth |-> fetch["eth"].price, degen |-> fetch["degen"].price]
          /\ pc' = "decide"
          /\ fetch' = [c \in Currencies |-> FetchIdle]
          /\ UNCHANGED error
       \/ /\ \E c \in Currencies : fetch[c].st = "failed"
          /\ error' = "Can not fetch price"
          /\ pc' = "catch"
          /\ UNCHANGED <<current, fetch>>
    /\ UNCHANGED <<elsewhere, schemaName, exitCode>>
    /\ UNCHANGED <<variant, runs, db, tx, connOpen, endCalls, transactionStarted,
                   latestPrice, decided, prices, rows, idx, stmts, caught, pre>>

\* the prices updateLatestPrice returns with didUpdate: false
LatestPrices(latest) ==
    [ethUsd |-> Number(latest[1].eth_usd), degenUsd |-> Number(latest[1].degen_usd)]

\* faulty variant of AfterDecision: no early return when didUpdate is false
AfterDecision_NoEarlyReturn(d) ==
    CASE d = "throw"  -> "catch"
      [] d = "skip"   -> "insert"
      [] d = "update" -> "insert"

\* where control goes after shouldUpdatePrice: percentChange threw (main's
\* catch), didUpdate false (main's ROLLBACK and return 0), or the INSERT
AfterDecision(d) ==
    CASE d = "throw"  -> "catch"
      [] d = "skip"   -> "noopRollback"
      [] d = "update" -> "insert"

\* updateLatestPrice: shouldUpdatePrice and the early return
Decide ==
    /\ pc = "decide"
    /\ LET d == Decision(latestPrice, current, Threshold(variant))
       IN  /\ decided' = d
           /\ pc' = AfterDecision(d)
           /\ CASE d = "throw"  -> /\ error' = "Previous price === 0"
                                   /\ UNCHANGED prices
                [] d = "skip"   -> /\ prices' = LatestPrices(latestPrice)
                                   /\ UNCHANGED error
                [] d = "update" -> UNCHANGED <<prices, error>>
    /\ UNCHANGED <<elsewhere, schemaName, exitCode>>
    /\ UNCHANGED <<variant, runs, db, tx, connOpen, endCalls, transactionStarted,
                   latestPrice, fetch, current, rows, idx, stmts, caught, pre>>

\* the row INSERT INTO public."Price" adds
NewPriceRow(cur) ==
    [eth_usd |-> NumToString(cur.eth), degen_usd |-> NumToString(cur.degen)]

\* updateLatestPrice: INSERT INTO public."Price"
InsertPrice ==
    /\ pc = "insert"
    /\ \E ok \in BOOLEAN :
         /\ stmts' = Append(stmts, Stmt("INSERT_PRICE", ok))
         /\ IF ok
            THEN /\ txPrice' = Append(txPrice, NewPriceRow(current))
                 /\ prices' = [ethUsd |-> current.eth, degenUsd |-> current.degen]
                 /\ pc' = IF variant = "dynamic" THEN "ensure" ELSE "selectBounties"
                 /\ UNCHANGED error
            ELSE /\ pc' = "catch"
                 /\ error' = "INSERT price failed"
                 /\ UNCHANGED <<txPrice, prices>>
    /\ UNCHANGED <<elsewhere, schemaName, exitCode>>
    /\ UNCHANGED <<variant, runs, db, txAmount, dbTx, connOpen, endCalls,
                   transactionStarted, latestPrice, fetch, current, decided, rows,
                   idx, caught, pre>>

\* the no-update branch of main: ROLLBACK, transactionStarted = false, return 0
NoopRollback ==
    /\ pc = "noopRollback"
    /\ \E ok \in BOOLEAN :
         /\ stmts' = Append(stmts, Stmt("ROLLBACK", ok))
         /\ IF ok
            THEN /\ transactionStarted' = FALSE
                 /\ dbTx' = FALSE
                 /\ txPrice' = priceTable
                 /\ txAmount' = amountSort
                 /\ pc' = "finally"
                 /\ UNCHANGED error
            ELSE /\ pc' = "catch"
                 /\ error' = "ROLLBACK failed"
                 /\ UNCHANGED <<transactionStarted, tx>>
    /\ UNCHANGED <<elsewhere, schemaName, exitCode>>
    /\ UNCHANGED <<variant, runs, db, connOpen, endCalls, locals, fetch, caught, pre>>

\* ensureLiveQueryTables: CREATE TABLE IF NOT EXISTS  (dynamic variant)
EnsureLiveQueryTables ==
    /\ pc = "ensure"
    /\ \E ok \in BOOLEAN :
         /\ stmts' = Append(stmts, Stmt("CREATE_TABLE", ok))
         /\ IF ok
            THEN pc' = "selectBounties" /\ UNCHANGED error
            ELSE pc' = "catch" /\ error' = "CREATE TABLE failed"
    /\ UNCHANGED <<elsewhere, schemaName, exitCode>>
    /\ UNCHANGED <<variant, runs, db, tx, connOpen, endCalls, transactionStarted,
                   locals, fetch, caught, pre>>

\* updateBountyAmounts: the SELECT of the bounty rows.  A resolved pg query
\* always carries rows, so the guard on a missing rows field never fires.
\* The sidecar SELECT joins "BountiesExtra"; every row is taken to have its
\* extra row.
SelectBounties ==
    /\ pc = "selectBounties"
    /\ \E ok \in BOOLEAN :
         /\ stmts' = Append(stmts, Stmt("SELECT_BOUNTIES", ok))
         /\ IF ok
            THEN /\ rows' = SelectRows
                 /\ idx' = 1
                 /\ pc' = IF Len(SelectRows) = 0 THEN "commit" ELSE "update"
                 /\ UNCHANGED error
            ELSE /\ pc' = "catch"
                 /\ error' = "SELECT bounties failed"
                 /\ UNCHANGED <<rows, idx>>
    /\ UNCHANGED <<elsewhere, schemaName, exitCode>>
    /\ UNCHANGED <<variant, runs, db, tx, connOpen, endCalls, transactionStarted,
                   latestPrice, fetch, current, decided, prices, caught, pre>>

\* faulty variant of UpdateRow: updateError is logged instead of thrown and the
\* loop goes on with the next row
UpdateRow_BestEffort ==
    /\ pc = "update"
    /\ LET r   == rows[idx]
           val == AmountSortOf(r, prices)
       IN  \E ok \in BOOLEAN :
             /\ stmts' = Append(stmts, UpdateStmt(r, val, ok))
             /\ txAmount' = IF ok THEN UpdateWhere(txAmount, variant, r, val)
                            ELSE txAmount
             /\ idx' = idx + 1
             /\ pc' = IF idx = Len(rows) THEN "commit" ELSE "update"
             /\ UNCHANGED error
    /\ UNCHANGED <<elsewhere, schemaName, exitCode>>
    /\ UNCHANGED <<variant, runs, db, txPrice, dbTx, connOpen, endCalls,
                   transactionStarted, latestPrice, fetch, current, decided, prices,
                   rows, caught, pre>>

\* updateBountyAmounts: one iteration of the for loop
UpdateRow ==
    /\ pc = "update"
    /\ LET r   == rows[idx]
           val == AmountSortOf(r, prices)
       IN  \E ok \in BOOLEAN :
             /\ stmts' = Append(stmts, UpdateStmt(r, val, ok))
             /\ IF ok
                THEN /\ txAmount' = UpdateWhere(txAmount, variant, r, val)
                     /\ idx' = idx + 1
                     /\ pc' = IF idx = Len(rows) THEN "commit" ELSE "update"
                     /\ UNCHANGED error
                ELSE /\ pc' = "catch"
                     /\ error' = "UPDATE failed"
                     /\ UNCHANGED <<txAmount, idx>>
    /\ UNCHANGED <<elsewhere, schemaName, exitCode>>
    /\ UNCHANGED <<variant, runs, db, txPrice, dbTx, connOpen, endCalls,
                   transactionStarted, latestPrice, fetch, current, decided, prices,
                   rows, caught, pre>>

\* client.query("COMMIT"); transactionStarted = false; return 0.  A COMMIT
\* that fails was either refused by the server or applied with its
\* acknowledgement lost.
Commit ==
    /\ pc = "commit"
    /\ \E ok \in BOOLEAN, applied \in BOOLEAN :
         /\ ok => applied
         /\ stmts' = Append(stmts, Stmt("COMMIT", ok))
         /\ IF applied
            THEN priceTable' = txPrice /\ amountSort' = txAmount
            ELSE UNCHANGED db
         /\ dbTx' = FALSE
         /\ txPrice' = priceTable'
         /\ txAmount' = amountSort'
         /\ IF ok
            THEN /\ transactionStarted' = FALSE
                 /\ pc' = "finally"
                 /\ UNCHANGED error
            ELSE /\ pc' = "catch"
                 /\ error' = "COMMIT failed"
                 /\ UNCHANGED transactionStarted
    /\ UNCHANGED <<elsewhere, schemaName, exitCode>>
    /\ UNCHANGED <<variant, runs, connOpen, endCalls, locals, fetch, caught, pre>>

-----------------------------------------------------------------------------
(* main: catch and finally *)

\* faulty variant of RollbackInCatch: the handler rolls back unconditionally
RollbackInCatch_Always == TRUE

\* if (transactionStarted)
RollbackInCatch == transactionStarted

\* await client.query("ROLLBACK") inside the catch block is not guarded: when
\* it rejects, its error leaves the catch block instead of the caught one
ErrorAfterFailedRollback(orig) == "ROLLBACK failed in catch"

\* faulty variant of AfterCatch: client.end() after the try statement instead of in
\* its finally block, so that a rejection inside the catch block skips it
AfterCatch_NoFinally(rollbackOk) == IF rollbackOk THEN "finally" ELSE "done"

\* the finally block runs when the catch block is left, by its "throw error"
\* or by the rejection of its ROLLBACK
AfterCatch(rollbackOk) == "finally"

\* catch (error) { if (transactionStarted) await client.query("ROLLBACK"); throw error }
Catch ==
    /\ pc = "catch"
    /\ caught' = error
    /\ IF RollbackInCatch
       THEN \E ok \in BOOLEAN :
              /\ stmts' = Append(stmts, Stmt("ROLLBACK", ok))
              /\ pc' = AfterCatch(ok)
              /\ IF ok
                 THEN /\ dbTx' = FALSE
                      /\ txPrice' = priceTable
                      /\ txAmount' = amountSort
                      /\ UNCHANGED error
                 ELSE /\ error' = ErrorAfterFailedRollback(error)
                      /\ UNCHANGED tx
       ELSE pc' = AfterCatch(TRUE) /\ UNCHANGED <<stmts, error, tx>>
    /\ UNCHANGED <<elsewhere, schemaName, exitCode>>
    /\ UNCHANGED <<variant, runs, db, connOpen, endCalls, transactionStarted,
                   locals, fetch, pre>>

\* finally { await client.end() }: the connection is closed, and the server
\* aborts a transaction still open on it.  main() has then settled and the
\* process exits (process.exit in the then / catch of main()), which ends a
\* fetchPrice call that is still running.
Finally ==
    /\ pc = "finally"
    /\ endCalls' = endCalls + 1
    /\ connOpen' = FALSE
    /\ dbTx' = FALSE
    /\ txPrice' = priceTable
    /\ txAmount' = amountSort
    /\ pc' = "done"
    /\ \E ok \in BOOLEAN :
         error' = IF ok THEN error ELSE "end failed"
    /\ exitCode' = <<ExitCode(error')>>
    /\ fetch' = [c \in Currencies |-> FetchIdle]
    /\ UNCHANGED <<elsewhere, schemaName>>
    /\ UNCHANGED <<variant, runs, db, transactionStarted, locals, stmts,
                   caught, pre>>

-----------------------------------------------------------------------------

Next ==
    \/ StartRun
    \/ CheckEnv
    \/ FetchDeploymentId
    \/ Connect
    \/ Begin
    \/ SelectLatest
    \/ \E c \in Currencies : FetchAttempt(c)
    \/ PromiseAll
    \/ Decide
    \/ InsertPrice
    \/ NoopRollback
    \/ EnsureLiveQueryTables
    \/ SelectBounties
    \/ UpdateRow
    \/ Commit
    \/ Catch
    \/ Finally

Spec == Init /\ [][Next]_vars

\* a step of the running process: every action but the start of a run
ProcessStep ==
    \/ CheckEnv
    \/ FetchDeploymentId
    \/ Connect
    \/ Begin
    \/ SelectLatest
    \/ \E c \in Currencies : FetchAttempt(c)
    \/ PromiseAll
    \/ Decide
    \/ InsertPrice
    \/ NoopRollback
    \/ EnsureLiveQueryTables
    \/ SelectBounties
    \/ UpdateRow
    \/ Commit
    \/ Catch
    \/ Finally

\* Every awaited call settles and the event loop then runs a continuation:
\* the process goes on while it has a step to take.  Nothing obliges cron to
\* start another run.
FairSpec == Spec /\ WF_vars(ProcessStep)

-----------------------------------------------------------------------------
(* The decision step on a wider range of prices *)

\* USD texts of the endpoint around both thresholds of a previous 2000 / 0.01
PolicyTexts(c) ==
    IF c = "eth" THEN {"2000", "2100", "2150", "2200", "2300", "0"}
    ELSE {"0.01", "0.0101", "0.011", "0.02", "abc", "-0.01"}

\* x > 0
Positive(x) == ~x.nan /\ x.m > 0

\* price tables that are empty or end in a snapshot of positive prices
PolicyPriceTables ==
    {<<>>} \cup
    {<<[eth_usd |-> a, degen_usd |-> b]>> :
        a \in {t \in PolicyTexts("eth") : Positive(Number(t))},
        b \in {t \in PolicyTexts("degen") : Positive(Number(t))}}

\* main() stands before the decision of updateLatestPrice: BEGIN and the
\* SELECT of the latest snapshot succeeded and both fetchPrice calls returned
PolicyInit ==
    /\ variant \in Variants
    /\ runs = 1
    /\ pc = "decide"
    /\ priceTable \in PolicyPriceTables
    /\ amountSort = [k \in RowIds |-> NoVal]
    /\ txPrice = priceTable
    /\ txAmount = amountSort
    /\ dbTx = TRUE
    /\ connOpen = TRUE
    /\ endCalls = 0
    /\ transactionStarted = TRUE
    /\ latestPrice = IF priceTable = <<>> THEN <<>> ELSE <<priceTable[Len(priceTable)]>>
    /\ fetch = [c \in Currencies |-> FetchIdle]
    /\ \E a \in PolicyTexts("eth"), b \in PolicyTexts("degen") :
         current = [eth |-> Number(a), degen |-> Number(b)]
    /\ decided = "none"
    /\ prices = [ethUsd |-> NaN, degenUsd |-> NaN]
    /\ rows = <<>>
    /\ idx = 1
    /\ stmts = <<Stmt("BEGIN", TRUE), Stmt("SELECT_PRICE", TRUE)>>
    /\ error = "none"
    /\ caught = "none"
    /\ pre = [price |-> priceTable, amount |-> amountSort]
    /\ schemaName = IF variant = "dynamic" THEN <<"d1">> ELSE <<>>
    /\ exitCode = <<>>
    /\ job = [p \in Procs |-> JobIdle]
    /\ passes = <<>>
    /\ trigger = TriggerIdle

PolicySpec == PolicyInit /\ [][Decide]_vars

-----------------------------------------------------------------------------
(* Two runs of the job against the same database *)

\* the state of the single run and of the other programs, which take no part
single ==
    <<runs, pc, tx, connOpen, endCalls, transactionStarted, locals, fetch, stmts,
      error, caught, pre, schemaName, exitCode, passes, trigger>>

\* the pairs of USD texts the two fetchPrice calls of a run can return
OverlapTexts == {[eth |-> a, degen |-> "0.01"] : a \in {"2000", "2300"}}

OverlapInit ==
    /\ variant \in Variants
    /\ runs = 0
    /\ pc = "idle"
    /\ priceTable \in InitialPriceTables
    /\ amountSort = [k \in RowIds |-> NoVal]
    /\ txPrice = priceTable
    /\ txAmount = amountSort
    /\ dbTx = FALSE
    /\ connOpen = FALSE
    /\ endCalls = 0
    /\ transactionStarted = FALSE
    /\ latestPrice = <<>>
    /\ fetch = [c \in Currencies |-> FetchIdle]
    /\ current = [eth |-> NaN, degen |-> NaN]
    /\ decided = "none"
    /\ prices = [ethUsd |-> NaN, degenUsd |-> NaN]
    /\ rows = <<>>
    /\ idx = 1
    /\ stmts = <<>>
    /\ error = "none"
    /\ caught = "none"
    /\ pre = [price |-> priceTable, amount |-> amountSort]
    /\ schemaName = <<>>
    /\ exitCode = <<>>
    /\ job = [p \in Procs |-> JobIdle]
    /\ passes = <<>>
    /\ trigger = TriggerIdle

\* the other of the two runs
Other(p) == CHOOSE q \in Procs : q # p

\* the rows a run has updated inside its open transaction; the server holds
\* their row locks until the transaction ends
LockedBy(q) == {k \in RowIds : job[q].amt[k] # <<>>}

\* the record of a run whose transaction has ended: its uncommitted writes
\* and row locks are gone
Ended(j) == [j EXCEPT !.ins = <<>>, !.amt = [k \in RowIds |-> <<>>]]

\* main up to client.connect(): environment, deployment id, connection
JobConnect(p) ==
    /\ job[p].pc = "idle"
    /\ \E ok \in BOOLEAN :
         job' = [job EXCEPT ![p] =
                   IF ok THEN [@ EXCEPT !.pc = "begin"]
                   ELSE [@ EXCEPT !.pc = "done", !.error = "connect failed"]]
    /\ UNCHANGED <<variant, db, single>>

\* faulty variant of JobBeginStep: BEGIN followed by a lock that is held to
\* the end of the transaction, so that it succeeds only once the other run's
\* transaction has ended
JobBeginStep_Locked(p, ok) ==
    /\ job[p].pc = "begin"
    /\ ok => ~job[Other(p)].started
    /\ job' = [job EXCEPT ![p] =
                 IF ok THEN [@ EXCEPT !.pc = "selectLatest", !.started = TRUE]
                 ELSE [@ EXCEPT !.pc = "catch", !.error = "BEGIN failed"]]
    /\ UNCHANGED <<variant, db, single>>

\* client.query("BEGIN"); transactionStarted = true.  Nothing is locked.
JobBeginStep(p, ok) ==
    /\ job[p].pc = "begin"
    /\ job' = [job EXCEPT ![p] =
                 IF ok THEN [@ EXCEPT !.pc = "selectLatest", !.started = TRUE]
                 ELSE [@ EXCEPT !.pc = "catch", !.error = "BEGIN failed"]]
    /\ UNCHANGED <<variant, db, single>>

JobBegin(p) == \E ok \in BOOLEAN : JobBeginStep(p, ok)

\* updateLatestPrice: the SELECT of the latest snapshot sees the committed
\* rows (read committed), never the other run's uncommitted INSERT
JobSelectLatestStep(p, ok) ==
    /\ job[p].pc = "selectLatest"
    /\ job' = [job EXCEPT ![p] =
                 IF ok
                 THEN [@ EXCEPT !.pc = "fetch",
                                !.seen = <<Len(priceTable)>>,
                                !.latest = IF priceTable = <<>> THEN <<>>
                                           ELSE <<priceTable[Len(priceTable)]>>]
                 ELSE [@ EXCEPT !.pc = "catch", !.error = "SELECT price failed"]]
    /\ UNCHANGED <<variant, db, single>>

JobSelectLatest(p) == \E ok \in BOOLEAN : JobSelectLatestStep(p, ok)

\* updateLatestPrice: await Promise.all of the two fetchPrice calls
JobFetch(p) ==
    /\ job[p].pc = "fetch"
    /\ \/ \E t \in OverlapTexts :
            job' = [job EXCEPT ![p] =
                      [@ EXCEPT !.pc = "decide",
                                !.current = [eth |-> Number(t.eth),
                                             degen |-> Number(t.degen)]]]
       \/ job' = [job EXCEPT ![p] =
                    [@ EXCEPT !.pc = "catch", !.error = "Can not fetch price"]]
    /\ UNCHANGED <<variant, db, single>>

\* updateLatestPrice: shouldUpdatePrice and the early return
JobDecide(p) ==
    /\ job[p].pc = "decide"
    /\ LET d == Decision(job[p].latest, job[p].current, Threshold(variant))
       IN  job' = [job EXCEPT ![p] =
                     [@ EXCEPT !.decided = d,
                               !.pc = AfterDecision(d),
                               !.error = IF d = "throw" THEN "Previous price === 0"
                                         ELSE @,
                               !.prices = IF d = "skip"
                                          THEN LatestPrices(job[p].latest)
                                          ELSE @]]
    /\ UNCHANGED <<variant, db, single>>

\* updateLatestPrice: INSERT INTO public."Price", visible to this run only
\* until its COMMIT; the id comes from a sequence and nothing makes two
\* equal snapshots conflict
JobInsertStep(p, ok) ==
    /\ job[p].pc = "insert"
    /\ job' = [job EXCEPT ![p] =
                 IF ok
                 THEN [@ EXCEPT !.ins = <<NewPriceRow(job[p].current)>>,
                                !.prices = [ethUsd |-> job[p].current.eth,
                                            degenUsd |-> job[p].current.degen],
                                !.pc = IF variant = "dynamic" THEN "ensure"
                                       ELSE "selectBounties"]
                 ELSE [@ EXCEPT !.pc = "catch", !.error = "INSERT price failed"]]
    /\ UNCHANGED <<variant, db, single>>

JobInsert(p) == \E ok \in BOOLEAN : JobInsertStep(p, ok)

\* the no-update branch of main: ROLLBACK, transactionStarted = false, return 0
JobNoopRollback(p) ==
    /\ job[p].pc = "noopRollback"
    /\ \E ok \in BOOLEAN :
         job' = [job EXCEPT ![p] =
                   IF ok THEN [Ended(@) EXCEPT !.pc = "finally", !.started = FALSE]
                   ELSE [@ EXCEPT !.pc = "catch", !.error = "ROLLBACK failed"]]
    /\ UNCHANGED <<variant, db, single>>

\* ensureLiveQueryTables  (dynamic variant)
JobEnsure(p) ==
    /\ job[p].pc = "ensure"
    /\ \E ok \in BOOLEAN :
         job' = [job EXCEPT ![p] =
                   IF ok THEN [@ EXCEPT !.pc = "selectBounties"]
                   ELSE [@ EXCEPT !.pc = "catch", !.error = "CREATE TABLE failed"]]
    /\ UNCHANGED <<variant, db, single>>

\* updateBountyAmounts: the SELECT of the bounty rows
JobSelectBounties(p) ==
    /\ job[p].pc = "selectBounties"
    /\ \E ok \in BOOLEAN :
         job' = [job EXCEPT ![p] =
                   IF ok THEN [@ EXCEPT !.pc = "update", !.idx = 1]
                   ELSE [@ EXCEPT !.pc = "catch", !.error = "SELECT bounties failed"]]
    /\ UNCHANGED <<variant, db, single>>

\* updateBountyAmounts: one iteration of the for loop.  The UPDATE waits while
\* the other run holds the lock of a row it matches; it fails when the server
\* gives up the wait (deadlock, timeout) or for any other reason.
JobUpdateRow(p) ==
    /\ job[p].pc = "update"
    /\ LET r   == SelectRows[job[p].idx]
           val == AmountSortOf(r, job[p].prices)
           hit == {k \in RowIds : Matches(variant, k, r)}
       IN  \/ /\ hit \cap LockedBy(Other(p)) = {}
              /\ job' = [job EXCEPT ![p] =
                           [@ EXCEPT !.amt = [k \in RowIds |->
                                                IF k \in hit THEN <<val>>
                                                ELSE job[p].amt[k]],
                                     !.idx = @ + 1,
                                     !.pc = IF job[p].idx = Len(SelectRows)
                                            THEN "commit" ELSE "update"]]
           \/ job' = [job EXCEPT ![p] =
                        [@ EXCEPT !.pc = "catch", !.error = "UPDATE failed"]]
    /\ UNCHANGED <<variant, db, single>>

\* client.query("COMMIT"): the run's snapshot and amount_sort values become
\* the committed ones; transactionStarted = false; return 0
JobCommitStep(p, ok, applied) ==
    /\ job[p].pc = "commit"
    /\ ok => applied
    /\ IF applied
       THEN /\ priceTable' = priceTable \o job[p].ins
            /\ amountSort' = [k \in RowIds |->
                                IF job[p].amt[k] # <<>> THEN job[p].amt[k][1]
                                ELSE amountSort[k]]
       ELSE UNCHANGED db
    /\ job' = [job EXCEPT ![p] =
                 IF ok
                 THEN [Ended(@) EXCEPT !.pc = "finally", !.started = FALSE,
                                       !.committed = TRUE]
                 ELSE [Ended(@) EXCEPT !.pc = "catch", !.error = "COMMIT failed"]]
    /\ UNCHANGED <<variant, single>>

JobCommit(p) == \E ok \in BOOLEAN, applied \in BOOLEAN : JobCommitStep(p, ok, applied)

\* catch (error) { if (transactionStarted) await client.query("ROLLBACK"); throw error }
JobCatch(p) ==
    /\ job[p].pc = "catch"
    /\ IF job[p].started
       THEN \E ok \in BOOLEAN :
              job' = [job EXCEPT ![p] =
                        IF ok THEN [Ended(@) EXCEPT !.pc = "finally"]
                        ELSE [@ EXCEPT !.pc = "finally",
                                       !.error = ErrorAfterFailedRollback(@)]]
       ELSE job' = [job EXCEPT ![p] = [@ EXCEPT !.pc = "finally"]]
    /\ UNCHANGED <<variant, db, single>>

\* finally { await client.end() }: the server aborts a transaction still open
JobFinally(p) ==
    /\ job[p].pc = "finally"
    /\ \E ok \in BOOLEAN :
         job' = [job EXCEPT ![p] =
                   [Ended(@) EXCEPT !.pc = "done",
                                    !.error = IF ok THEN @ ELSE "end failed"]]
    /\ UNCHANGED <<variant, db, single>>

OverlapNext ==
    \E p \in Procs :
        \/ JobConnect(p)
        \/ JobBegin(p)
        \/ JobSelectLatest(p)
        \/ JobFetch(p)
        \/ JobDecide(p)
        \/ JobInsert(p)
        \/ JobNoopRollback(p)
        \/ JobEnsure(p)
        \/ JobSelectBounties(p)
        \/ JobUpdateRow(p)
        \/ JobCommit(p)
        \/ JobCatch(p)
        \/ JobFinally(p)

OverlapSpec == OverlapInit /\ [][OverlapNext]_vars

-----------------------------------------------------------------------------
(* The trigger client *)

\* the state of the job, which the trigger client does not touch
jobState ==
    <<variant, db, runs, pc, tx, connOpen, endCalls, transactionStarted, locals,
      fetch, stmts, error, caught, pre, schemaName, exitCode, job, passes>>

\* values of Date.now(), in milliseconds
ClockMs == {0, 999, 1000, 1999, 2000, 61001, 86400000}

\* Math.floor(Date.now() / 1000)
UnixSeconds(ms) == ms \div 1000

\* HTTP statuses the exchange can end with (axios follows redirects itself)
Statuses == {200, 204, 400, 401, 404, 500}

\* axios resolves the request on a 2xx status and rejects it on any other
Resolves(status) == 200 <= status /\ status < 300

\* `POST|${endpoint}|${timestamp}|${JSON.stringify(body)}`
Canonical(ts) ==
    [method |-> "POST", endpoint |-> "/updatePrice", timestamp |-> ts, body |-> "{}"]

\* crypto.createHmac("sha256", secret).update(text).digest("hex")
Hmac(secret, text) == [secret |-> secret, text |-> text]

\* the request axios.post sends
Request(url, key, secret, ts) ==
    [method |-> "POST", url |-> url, path |-> "/updatePrice", body |-> "{}",
     apiKey |-> key, signature |-> Hmac(secret, Canonical(ts)), xTimestamp |-> ts]

\* faulty variant of CredentialsMissing: && written for ||
CredentialsMissing_Both(key, secret) == key = "" /\ secret = ""

\* if (!API_KEY || !API_SECRET)
CredentialsMissing(key, secret) == key = "" \/ secret = ""

TriggerInit ==
    /\ variant = "dynamic"
    /\ runs = 0
    /\ pc = "idle"
    /\ priceTable = <<>>
    /\ amountSort = [k \in RowIds |-> NoVal]
    /\ txPrice = priceTable
    /\ txAmount = amountSort
    /\ dbTx = FALSE
    /\ connOpen = FALSE
    /\ endCalls = 0
    /\ transactionStarted = FALSE
    /\ latestPrice = <<>>
    /\ fetch = [c \in Currencies |-> FetchIdle]
    /\ current = [eth |-> NaN, degen |-> NaN]
    /\ decided = "none"
    /\ prices = [ethUsd |-> NaN, degenUsd |-> NaN]
    /\ rows = <<>>
    /\ idx = 1
    /\ stmts = <<>>
    /\ error = "none"
    /\ caught = "none"
    /\ pre = [price |-> priceTable, amount |-> amountSort]
    /\ schemaName = <<>>
    /\ exitCode = <<>>
    /\ job = [p \in Procs |-> JobIdle]
    /\ passes = <<>>
    /\ \E k \in {"", "pk"}, sk \in {"", "sk"}, u \in {"", "https://server"} :
         trigger = [TriggerIdle EXCEPT !.key = k, !.secret = sk, !.url = u]

\* main of the trigger client up to the call of axios.post: the timestamp is
\* taken once, the credentials are checked, the request is signed and handed
\* to axios, which sends it unless the URL is invalid (SERVER_URL unset)
TriggerMain ==
    /\ trigger.pc = "idle"
    /\ \E ms \in ClockMs :
         LET ts == UnixSeconds(ms)
             t  == [trigger EXCEPT !.now = ms, !.timestamp = ts]
         IN  trigger' =
               IF CredentialsMissing(trigger.key, trigger.secret)
               THEN [t EXCEPT !.pc = "settled",
                              !.error = "API key or API secret is missing"]
               ELSE IF trigger.url = ""
               THEN [t EXCEPT !.pc = "settled", !.error = "Invalid URL"]
               ELSE [t EXCEPT !.pc = "post",
                              !.sent = Append(trigger.sent,
                                              Request(trigger.url, trigger.key,
                                                      trigger.secret, ts))]
    /\ UNCHANGED jobState

\* the promise of axios.post settles: no response, or a response with a status
TriggerSettle ==
    /\ trigger.pc = "post"
    /\ \/ trigger' = [trigger EXCEPT !.pc = "settled", !.error = "Network Error"]
       \/ \E st \in Statuses :
            trigger' = [trigger EXCEPT
                          !.pc = "settled",
                          !.status = <<st>>,
                          !.error = IF Resolves(st) THEN "none"
                                    ELSE "Request failed with status code"]
    /\ UNCHANGED jobState

\* main().then(... process.exit(0)).catch(... process.exit(1))
TriggerExit ==
    /\ trigger.pc = "settled"
    /\ trigger' = [trigger EXCEPT
                     !.pc = "exited",
                     !.exitCode = <<IF trigger.error = "none" THEN 0 ELSE 1>>]
    /\ UNCHANGED jobState

TriggerNext == TriggerMain \/ TriggerSettle \/ TriggerExit

TriggerSpec == TriggerInit /\ [][TriggerNext]_vars

-----------------------------------------------------------------------------
(* updateBountyAmounts run repeatedly with the same prices *)

\* Passes of updateBountyAmounts in one behaviour.
MaxPasses == 2

\* the price pairs updateBountyAmounts is called with
RevaluePrices ==
    {[ethUsd |-> Number(a), degenUsd |-> Number(b)] :
        a \in {"2000", "2300"}, b \in {"0.01", "0.02", "abc"}}

\* amount_sort of the rows before the first pass: never set, or a stale value
RevalueTables ==
    {[k \in RowIds |-> NoVal], [k \in RowIds |-> [nan |-> FALSE, n |-> 700000]]}

\* updateBountyAmounts is about to be called: the transaction is open and the
\* prices are decided
RevalueInit ==
    /\ variant \in Variants
    /\ runs = 1
    /\ pc = "selectBounties"
    /\ priceTable = <<>>
    /\ amountSort \in RevalueTables
    /\ txPrice = priceTable
    /\ txAmount = amountSort
    /\ dbTx = TRUE
    /\ connOpen = TRUE
    /\ endCalls = 0
    /\ transactionStarted = TRUE
    /\ latestPrice = <<>>
    /\ fetch = [c \in Currencies |-> FetchIdle]
    /\ current = [eth |-> NaN, degen |-> NaN]
    /\ decided = "update"
    /\ prices \in RevaluePrices
    /\ rows = <<>>
    /\ idx = 1
    /\ stmts = <<>>
    /\ error = "none"
    /\ caught = "none"
    /\ pre = [price |-> priceTable, amount |-> amountSort]
    /\ schemaName = IF variant = "dynamic" THEN <<"d1">> ELSE <<>>
    /\ exitCode = <<>>
    /\ job = [p \in Procs |-> JobIdle]
    /\ passes = <<>>
    /\ trigger = TriggerIdle

\* updateBountyAmounts: the SELECT of the bounty rows, returned in any order
RevalueSelect ==
    /\ pc = "selectBounties"
    /\ Len(passes) < MaxPasses
    /\ \E o \in RowOrders : rows' = o
    /\ idx' = 1
    /\ pc' = "update"
    /\ UNCHANGED <<variant, runs, db, tx, connOpen, endCalls, transactionStarted,
                   latestPrice, fetch, current, decided, prices, stmts, error,
                   caught, pre, schemaName, exitCode, job, passes, trigger>>

\* updateBountyAmounts: one iteration of the for loop; after the last row the
\* function returns and is called again with the same prices
RevalueRow ==
    /\ pc = "update"
    /\ txAmount' = UpdateWhere(txAmount, variant, rows[idx],
                               AmountSortOf(rows[idx], prices))
    /\ idx' = idx + 1
    /\ IF idx = Len(rows)
       THEN pc' = "selectBounties" /\ passes' = Append(passes, txAmount')
       ELSE pc' = "update" /\ UNCHANGED passes
    /\ UNCHANGED <<variant, runs, db, txPrice, dbTx, connOpen, endCalls,
                   transactionStarted, latestPrice, fetch, current, decided,
                   prices, rows, stmts, error, caught, pre, schemaName, exitCode,
                   job, trigger>>

RevalueNext == RevalueSelect \/ RevalueRow

RevalueSpec == RevalueInit /\ [][RevalueNext]_vars

-----------------------------------------------------------------------------
(* Vocabulary of the properties *)

\* the statements of this run with operation op
StmtsOf(op) == {k \in DOMAIN stmts : stmts[k].op = op}

\* a statement op of this run succeeded
Succeeded(op) == \E k \in StmtsOf(op) : stmts[k].ok

\* the numbers of a row of public."Price"
SnapshotPrices(row) ==
    [ethUsd |-> Number(row.eth_usd), degenUsd |-> Number(row.degen_usd)]

\* the committed database is what it was when the run started
Untouched == priceTable = pre.price /\ amountSort = pre.amount

\* the committed database holds exactly one snapshot more than when the run
\* started, and every bounty row carries its own valuation at that snapshot
FullyRevalued ==
    /\ Len(priceTable) = Len(pre.price) + 1
    /\ SubSeq(priceTable, 1, Len(pre.price)) = pre.price
    /\ \A r \in RowIds :
         amountSort[r] = AmountSortOf(r, SnapshotPrices(priceTable[Len(priceTable)]))

\* C1: all-or-nothing run.  Whatever fails after BEGIN, the committed
\* database is either the one the run started from, or it holds exactly one
\* new snapshot and every bounty row read by the run is revalued from that
\* snapshot's prices; nothing in between is ever committed.
C1_AllOrNothing == Untouched \/ FullyRevalued

\* the first statement op of this run
FirstOf(op) == CHOOSE k \in StmtsOf(op) : \A j \in StmtsOf(op) : k <= j

\* the ROLLBACK of the no-update branch was issued and succeeded (in a run
\* that decided 'no update' it is the run's first ROLLBACK)
NoopRollbackOk ==
    decided = "skip" /\ StmtsOf("ROLLBACK") # {} /\ stmts[FirstOf("ROLLBACK")].ok

\* C2: no-op run.  When the decision is 'no update', the run issues no INSERT
\* into the price table, no create-table statement and no bounty SELECT or
\* UPDATE, and commits nothing; the next statement it issues is ROLLBACK, and
\* when that ROLLBACK succeeds main returns 0 with snapshots and bounty rows
\* unchanged (after the return only closing the connection can still fail).
C2_NoOpRun ==
    decided = "skip" =>
        /\ StmtsOf("INSERT_PRICE") = {}
        /\ StmtsOf("CREATE_TABLE") = {}
        /\ StmtsOf("SELECT_BOUNTIES") = {}
        /\ StmtsOf("UPDATE") = {}
        /\ StmtsOf("COMMIT") = {}
        /\ Untouched
        /\ (pc # "noopRollback" => StmtsOf("ROLLBACK") # {})
        /\ (NoopRollbackOk =>
              /\ caught = "none"
              /\ pc \in {"finally", "done"}
              /\ (pc = "finally" => error = "none")
              /\ (pc = "done" => error \in {"none", "end failed"}))

\* a no-op run against a recorded snapshot has returned 0 and ended
C2_Witness ==
    /\ decided = "skip"
    /\ pc = "done"
    /\ error = "none"
    /\ NoopRollbackOk
    /\ priceTable # <<>>

\* ROLLBACK statements issued by main's catch block in this run (a run that
\* decided 'no update' issues its own ROLLBACK first)
HandlerRollbacks ==
    Cardinality(StmtsOf("ROLLBACK"))
        - (IF decided = "skip" /\ StmtsOf("ROLLBACK") # {} THEN 1 ELSE 0)

\* the run failed while its transaction was open: BEGIN succeeded and neither
\* COMMIT nor the no-op ROLLBACK did
FailedInTransaction ==
    Succeeded("BEGIN") /\ ~Succeeded("COMMIT") /\ ~NoopRollbackOk

\* C3: rollback is attempted exactly when a transaction is open at the time
\* of failure.  A run that ends after BEGIN succeeded without a successful
\* COMMIT or no-op ROLLBACK has issued one ROLLBACK from its failure handler
\* and ends failed; a run whose BEGIN failed, or whose COMMIT or no-op
\* ROLLBACK succeeded, has issued none from the handler.
C3_RollbackIffTransactionOpen ==
    pc = "done" =>
        IF FailedInTransaction
        THEN /\ HandlerRollbacks = 1
             /\ stmts[Len(stmts)].op = "ROLLBACK"
             /\ caught # "none"
             /\ error # "none"
        ELSE HandlerRollbacks = 0

\* a row UPDATE failed inside the transaction and the handler rolled back
C3_Witness ==
    /\ pc = "done"
    /\ caught = "UPDATE failed"
    /\ HandlerRollbacks = 1
    /\ \E k \in StmtsOf("UPDATE") : stmts[k].ok

\* C4: a failing rollback never masks the original error.  When the ROLLBACK
\* of the failure handler fails, the error main raises on leaving the catch
\* block is still the error that entered it.
C4_OriginalErrorKept ==
    (pc = "finally" /\ caught # "none") => error = caught

\* C5: connection release on every exit path.  client.end() is called at most
\* once in a run; a run that has ended holds no open connection, and one that
\* acquired a connection (it went on to issue BEGIN) has called client.end()
\* exactly once; and every open connection is eventually closed, whatever
\* fails on the way, the handler's ROLLBACK included.
C5_ConnectionReleased ==
    /\ [](/\ endCalls <= 1
          /\ (connOpen => endCalls = 0 /\ pc # "done")
          /\ (pc = "done" /\ stmts # <<>> => endCalls = 1))
    /\ (connOpen ~> (~connOpen /\ endCalls = 1))

\* the handler's ROLLBACK failed and the connection was closed all the same
C5_Witness ==
    /\ pc = "done"
    /\ error = "ROLLBACK failed in catch"
    /\ endCalls = 1
    /\ ~connOpen

\* the reference policy for one currency: abs((c - p) / p) * 100 > t for a
\* previous price p > 0, in exact arithmetic
RefExceeds(c, p, t) ==
    /\ ~c.nan
    /\ LET e  == Min(c.e, p.e)
           cv == c.m * Pow10(c.e - e)
           pv == p.m * Pow10(p.e - e)
       IN  100 * (cv - pv) > t * pv \/ 100 * (pv - cv) > t * pv

\* the reference policy: no previous snapshot, or one currency moved by more
\* than the variant's threshold, 10 (dynamic) or 5 (sidecar)
RefUpdate ==
    \/ latestPrice = <<>>
    \/ LET t == IF variant = "dynamic" THEN 10 ELSE 5
           p == SnapshotPrices(latestPrice[1])
       IN  \/ RefExceeds(current.eth, p.ethUsd, t)
           \/ RefExceeds(current.degen, p.degenUsd, t)

\* the previous snapshot, if any, holds positive prices
PositivePrevious ==
    latestPrice # <<>> =>
        /\ Positive(SnapshotPrices(latestPrice[1]).ethUsd)
        /\ Positive(SnapshotPrices(latestPrice[1]).degenUsd)

C7_BoundedRetry ==
    /\ [](\A c \in Currencies :
            LET f == fetch[c] IN
            /\ f.attempts <= 5
            /\ (f.st = "idle" => f.attempts = 0)
            /\ (f.st = "running" => f.attempts < 5 /\ f.attempts = 5 - f.retries)
            /\ (f.st = "ok" => f.attempts = (5 - f.retries) + 1)
            /\ (f.st = "failed" <=> (f.attempts = 5 /\ f.retries = 0)))
    /\ [][\A c \in Currencies :
            /\ (fetch[c].st \in {"ok", "failed"} =>
                  fetch'[c] = fetch[c] \/ fetch'[c].st = "idle")
            /\ (fetch'[c].attempts > fetch[c].attempts =>
                  /\ fetch'[c].attempts = fetch[c].attempts + 1
                  /\ \A d \in Currencies \ {c} : fetch'[d] = fetch[d])]_vars
    /\ \A c \in Currencies : (fetch[c].st = "running") ~> (fetch[c].st # "running")

\* the eth call failed for good after 5 attempts while the concurrent degen
\* call returned at its third
C7_Witness ==
    /\ fetch["eth"].st = "failed"
    /\ fetch["eth"].attempts = 5
    /\ fetch["degen"].st = "ok"
    /\ fetch["degen"].attempts = 3

\* val is x rounded to 5 decimal places, x = am * pm * 10^xe: val counts
\* units of 10^-5 and lies within half a unit of x
RoundedTo5(val, am, pm, xe) ==
    LET e == Min(xe, -5)
        v == val.n * Pow10(-5 - e)
        x == am * pm * Pow10(xe - e)
    IN  ~val.nan /\ 2 * Abs(v - x) <= Pow10(-5 - e)

\* the value the claim prescribes for row r at the run's prices
RefAmountSort(r, val) ==
    LET b     == Bounties[r]
        price == IF b.chain_id = 666666666 THEN prices.degenUsd ELSE prices.ethUsd
    IN  IF price.nan THEN val.nan
        ELSE RoundedTo5(val, b.amount.m, price.m, b.amount.e - 18 + price.e)

\* C8: per-chain valuation.  The value every UPDATE of an updating run writes
\* as amountSort is rawAmount / 10^18 times the run's degen price when the
\* row's chainId is 666666666 and times the run's eth price for every other
\* chainId, rounded to 5 decimal places.
C8_PerChainValuation ==
    \A k \in StmtsOf("UPDATE") : RefAmountSort(stmts[k].row, stmts[k].val)

\* at eth 2300 and degen 0.02 the run wrote 2300.00000 for the bounty of
\* 10^18 base units on chain 1 and 0.01000 for the bounty of 5 * 10^17 base
\* units on chain 666666666
C8_Witness ==
    /\ prices = [ethUsd |-> Number("2300"), degenUsd |-> Number("0.02")]
    /\ \E k \in StmtsOf("UPDATE") :
         stmts[k].row = 1 /\ stmts[k].ok /\ stmts[k].val = [nan |-> FALSE, n |-> 230000000]
    /\ \E k \in StmtsOf("UPDATE") :
         stmts[k].row = 2 /\ stmts[k].ok /\ stmts[k].val = [nan |-> FALSE, n |-> 1000]
    /\ \E k \in StmtsOf("UPDATE") :
         stmts[k].row = 3 /\ stmts[k].ok /\ stmts[k].val = [nan |-> FALSE, n |-> 9]

\* C9: snapshot invariant.  Every snapshot of the price table has ethUsd and
\* degenUsd positive and finite: a fetched value that is zero, negative or not
\* a number is never recorded.
C9_SnapshotsPositive ==
    \A k \in DOMAIN priceTable :
        /\ Positive(SnapshotPrices(priceTable[k]).ethUsd)
        /\ Positive(SnapshotPrices(priceTable[k]).degenUsd)

\* C10: a non-2xx response is a retryable failure.  fetchPrice never returns a
\* price taken from a response whose HTTP status is not 2xx.
C10_PriceOnlyFrom2xx ==
    \A c \in Currencies : fetch[c].st = "ok" => fetch[c].httpOk

\* the errors fetchDeploymentId throws
ResolutionErrors ==
    {"Deployment ID fetch rejected", "Deployment ID fetch failed",
     "Deployment ID body rejected", "Deployment ID missing from response"}

\* C11: schema resolution is a step of the update path inside the transaction
\* (dynamic variant).  The deployment id is resolved only after the decision
\* is 'update' and after the new snapshot is inserted, and before revaluation;
\* a run that decides 'no update' resolves nothing; and a resolution failure
\* occurs with the transaction open and is followed by a ROLLBACK.
C11_ResolutionInsideTransaction ==
    /\ schemaName # <<>> => (decided = "update" /\ Succeeded("INSERT_PRICE"))
    /\ (variant = "dynamic" /\ StmtsOf("SELECT_BOUNTIES") # {}) => schemaName # <<>>
    /\ decided = "skip" => schemaName = <<>>
    /\ error \in ResolutionErrors =>
          (Succeeded("BEGIN") /\ StmtsOf("ROLLBACK") # {})

\* C12: the exit code reflects the run outcome.  The process exits when main
\* has settled, with 0 or 1; it exits with 0 iff the run ended with a
\* successful COMMIT or a successful no-op ROLLBACK and client.end() did not
\* fail; it exits with 1 whenever a statement of the run failed (BEGIN, a
\* query, COMMIT, ROLLBACK), whenever the price fetch was exhausted, and
\* whenever the run ended before its first statement (missing DATABASE_URL,
\* failed deployment-id resolution, failed connect).
C12_ExitCodeReflectsOutcome ==
    /\ (pc = "done" <=> exitCode # <<>>)
    /\ exitCode # <<>> =>
          /\ exitCode[1] \in {0, 1}
          /\ exitCode[1] = 0 <=>
                ((Succeeded("COMMIT") \/ NoopRollbackOk) /\ error # "end failed")
          /\ (\E k \in DOMAIN stmts : ~stmts[k].ok) => exitCode[1] = 1
          /\ caught = "Can not fetch price" => exitCode[1] = 1
          /\ stmts = <<>> => exitCode[1] = 1

\* a run has exited with 0 after its COMMIT and the close of its connection
C12_Witness ==
    /\ pc = "done"
    /\ exitCode = <<0>>
    /\ Succeeded("COMMIT")
    /\ error = "none"

\* C13: revaluation is idempotent.  When updateBountyAmounts runs twice in
\* succession with the same prices over the same rows, every amount_sort after
\* the second pass equals its value after the first pass.
C13_RevaluationIdempotent ==
    \A k \in 1..(Len(passes) - 1) : passes[k + 1] = passes[k]

\* both runs read the latest snapshot from the same price table, decided to
\* update and committed
BothCommitted ==
    /\ \A p \in Procs : job[p].committed /\ job[p].decided = "update"
    /\ job[1].seen = job[2].seen
    /\ job[1].latest = job[2].latest

\* C14: overlapping runs are not mutually excluded.  No step of a run waits
\* for the other run's transaction to end before it can begin, read the
\* latest snapshot, insert its own or commit; and when both runs have read
\* the same latest snapshot, decided 'update' and committed, the price table
\* holds two new snapshots for the one price movement.
C14_RunsNotExcluded ==
    /\ \A p \in Procs :
          /\ job[p].pc = "begin" => ENABLED JobBeginStep(p, TRUE)
          /\ job[p].pc = "selectLatest" => ENABLED JobSelectLatestStep(p, TRUE)
          /\ job[p].pc = "insert" => ENABLED JobInsertStep(p, TRUE)
          /\ job[p].pc = "commit" => ENABLED JobCommitStep(p, TRUE, TRUE)
    /\ BothCommitted => Len(priceTable) = job[1].seen[1] + 2

\* from the snapshot {2000, 0.01} both runs fetched eth 2300, decided to
\* update and committed: the table holds {2300, 0.01} twice
C14_Witness ==
    /\ BothCommitted
    /\ \A p \in Procs : job[p].pc = "done" /\ job[p].error = "none"
    /\ job[1].latest = <<[eth_usd |-> "2000", degen_usd |-> "0.01"]>>
    /\ Len(priceTable) = 3
    /\ priceTable[2] = [eth_usd |-> "2300", degen_usd |-> "0.01"]
    /\ priceTable[3] = [eth_usd |-> "2300", degen_usd |-> "0.01"]

\* C15: trigger client outcome.  The client sends at most one POST to
\* /updatePrice and none when the API key or the API secret is missing; it
\* exits with 0 only if that POST returned a 2xx response, and with 1 when the
\* credentials are missing, the request failed or the response is not 2xx;
\* and the timestamp inside the signed canonical string is the value sent as
\* X-Timestamp.
C15_TriggerOutcome ==
    /\ Len(trigger.sent) <= 1
    /\ (trigger.key = "" \/ trigger.secret = "") => trigger.sent = <<>>
    /\ \A k \in DOMAIN trigger.sent :
          /\ trigger.sent[k].method = "POST"
          /\ trigger.sent[k].path = "/updatePrice"
          /\ trigger.sent[k].signature.text.timestamp = trigger.sent[k].xTimestamp
    /\ trigger.exitCode = <<0>> =>
          /\ Len(trigger.sent) = 1
          /\ trigger.status # <<>>
          /\ 200 <= trigger.status[1] /\ trigger.status[1] <= 299
    /\ trigger.pc = "exited" =>
          /\ trigger.exitCode \in {<<0>>, <<1>>}
          /\ (trigger.key = "" \/ trigger.secret = "") => trigger.exitCode = <<1>>
          /\ trigger.status = <<>> => trigger.exitCode = <<1>>
          /\ (trigger.status # <<>> /\ ~(200 <= trigger.status[1] /\ trigger.status[1] <= 299))
                => trigger.exitCode = <<1>>

\* with both credentials set the client posted once at 61001 ms, signed and
\* sent timestamp 61, received 204 and exited with 0
C15_Witness ==
    /\ trigger.pc = "exited"
    /\ trigger.exitCode = <<0>>
    /\ trigger.now = 61001
    /\ Len(trigger.sent) = 1
    /\ trigger.sent[1].xTimestamp = 61
    /\ trigger.sent[1].signature.text.timestamp = 61
    /\ trigger.status = <<204>>

\* C16: fail-fast revaluation.  Once the UPDATE of a row has failed, the run
\* issues no UPDATE for any remaining row: the failed UPDATE is the run's last
\* UPDATE, the run is in its failure handler with the transaction open, and
\* the only statement that follows is ROLLBACK.
C16_FailFast ==
    \A k \in StmtsOf("UPDATE") :
        ~stmts[k].ok =>
            /\ \A j \in StmtsOf("UPDATE") : j <= k
            /\ IF k = Len(stmts)
               THEN pc = "catch" /\ transactionStarted
               ELSE k + 1 = Len(stmts) /\ stmts[k + 1].op = "ROLLBACK"

\* the UPDATE of the second row failed after the first succeeded; ROLLBACK
\* followed and the third row was never updated
C16_Witness ==
    /\ pc = "done"
    /\ Cardinality(StmtsOf("UPDATE")) = 2
    /\ \E k \in StmtsOf("UPDATE") : stmts[k].ok
    /\ \E k \in StmtsOf("UPDATE") : ~stmts[k].ok /\ stmts[k].row = rows[2]
    /\ stmts[Len(stmts)].op = "ROLLBACK"

\* C17: each row update writes only its own bounty.  The UPDATE issued for the
\* bounty (id, chainId) leaves the amountSort of every other bounty as it was,
\* a bounty with the same id on another chain included.
C17_RowUpdateFrame ==
    [][pc = "update" =>
          \A k \in RowIds : k # rows[idx] => txAmount'[k] = txAmount[k]]_vars

\* the statements that read or write data, and those that end a transaction
DataOps == {"SELECT_PRICE", "INSERT_PRICE", "CREATE_TABLE", "SELECT_BOUNTIES", "UPDATE"}

EndOps == {"COMMIT", "ROLLBACK"}

\* C18: single transaction per run.  A run issues at most one BEGIN, as its
\* first statement, and a run that connected has issued exactly one when it
\* ends; every data statement is issued after that BEGIN succeeded and before
\* any COMMIT or ROLLBACK of the run; after a COMMIT or ROLLBACK the run
\* issues no BEGIN and no data statement.
C18_SingleTransaction ==
    /\ Cardinality(StmtsOf("BEGIN")) <= 1
    /\ stmts # <<>> => stmts[1].op = "BEGIN"
    /\ (pc = "done" /\ endCalls = 1) => Cardinality(StmtsOf("BEGIN")) = 1
    /\ \A k \in DOMAIN stmts :
          /\ stmts[k].op \in DataOps =>
                /\ stmts[1].op = "BEGIN" /\ stmts[1].ok
                /\ \A j \in 1..(k - 1) : stmts[j].op \notin EndOps
          /\ stmts[k].op \in EndOps =>
                \A j \in (k + 1)..Len(stmts) : stmts[j].op = "ROLLBACK"

\* a run has issued BEGIN, every data statement and COMMIT, and its COMMIT
\* failed, so that ROLLBACK followed
C18_Witness ==
    /\ pc = "done"
    /\ \A op \in DataOps \ {"CREATE_TABLE"} : StmtsOf(op) # {}
    /\ \E k \in StmtsOf("COMMIT") : ~stmts[k].ok /\ Len(stmts) = k + 1

\* C19: the zero-previous-price failure is unreachable.  From an empty price
\* table or one whose snapshots are all positive, no run fails with the
\* 'Previous price === 0' error of percentChange.
C19_NoZeroPreviousFailure == error # "Previous price === 0"

\* C20: the ensure step is best-effort setup before revaluation (dynamic
\* variant).  An updating run issues the create-if-absent statement before it
\* reads or updates any bounty row, and a failure of that statement is not the
\* failure of the run: the run goes on to the revaluation.
C20_EnsureBestEffort ==
    /\ variant = "dynamic" =>
          \A k \in StmtsOf("SELECT_BOUNTIES") \cup StmtsOf("UPDATE") :
              \E j \in StmtsOf("CREATE_TABLE") : j < k
    /\ \A k \in StmtsOf("CREATE_TABLE") :
          ~stmts[k].ok =>
              /\ caught # "CREATE TABLE failed"
              /\ k = Len(stmts) => pc = "selectBounties"

====
